---- MODULE Spec2Model ----
(***************************************************************************)
(* State-machine model of the scene renderer: the texture and material     *)
(* registries, the shader pushes and the draw helpers of SceneManager.cpp, *)
(* and the camera / projection controller of ViewManager.cpp.              *)
(***************************************************************************)
EXTENDS Integers, Sequences, FiniteSets, TLC

VARIABLES
    m_pShaderManager,   \* SceneManager: "valid" or "NULL"
    m_textureIDs,       \* SceneManager: the TEXTURE_INFO array, index 0..MAX_TEXTURES-1
    m_loadedTextures,   \* SceneManager: number of registered textures
    overrun,            \* entries written past the end of m_textureIDs
    m_objectMaterials,  \* SceneManager: std::vector<OBJECT_MATERIAL>
    glNextName,         \* GL: the next texture name glGenTextures hands out
    glActiveUnit,       \* GL: the active texture unit
    glUnits,            \* GL: unit -> texture name bound to GL_TEXTURE_2D (0 = none)
    sink,               \* the uniforms held by the shader program
    meshCall,           \* the last call that reached the mesh library
    texCall,            \* the last texture-registry call, its arguments and return value
    sceneCall,          \* the last transform or draw call of the scene composer and its arguments
    nullDeref,          \* a member was called through a NULL shader manager
    crashed,            \* the process died
    g_pCamera,          \* ViewManager: the Camera object (Position, Front, Up, Yaw, Pitch, Zoom)
    gLastX, gLastY,     \* ViewManager: the last recorded cursor position
    gFirstMouse,        \* ViewManager: the next cursor sample is the first one
    gDeltaTime,         \* ViewManager: time between the current and the last frame
    gLastFrame,         \* ViewManager: time of the last frame
    bCursorDisabled,    \* ViewManager: the cursor is hidden and bound to the window
    bTabPressed,        \* ViewManager: TAB went down and has not been released yet
    g_ProjectionMode,   \* ViewManager: "Perspective" or "Orthographic"
    windowShouldClose,  \* GLFW: the close flag of the window
    viewCall,           \* the last ViewManager call and its inputs
    cursorLog,          \* the cursor samples received, relative to the last O-press
    pc                  \* the position of the main program in PrepareScene and the frame loop

sceneVars == <<m_pShaderManager, m_textureIDs, m_loadedTextures, overrun,
               m_objectMaterials, glNextName, glActiveUnit, glUnits, sink,
               meshCall, texCall, sceneCall, nullDeref, crashed>>

viewVars == <<g_pCamera, gLastX, gLastY, gFirstMouse, gDeltaTime, gLastFrame,
              bCursorDisabled, bTabPressed, g_ProjectionMode, windowShouldClose, viewCall,
              cursorLog>>

vars == <<sceneVars, viewVars, pc>>

-----------------------------------------------------------------------------
(* Bounds of the model *)

\* texture names glGenTextures may hand out in the scene specification
MaxTextureNames == 3
\* materials that may be defined
MaxMaterials == 2
\* loads beyond the capacity of m_textureIDs in the capacity specification
CapExtra == 2
\* texture names glGenTextures may hand out in the draw specification
MaxSceneTextures == 2
\* keys held down in one frame
MaxKeysDown == 2
\* seconds on the clock of glfwGetTime
MaxTime == 1
\* steps the zoom may be scrolled below ZoomMax
MaxZoomSteps == 1
\* frames of the render loop
MaxFrames == 2
\* texture files of the scene the codec fails to decode
MaxFailedLoads == 1

-----------------------------------------------------------------------------
(* Program constants *)

\* size of the m_textureIDs array ("There are up to 16 slots")
MAX_TEXTURES == 16

\* texture units of the GL context (GL_TEXTURE0 .. GL_TEXTURE31)
GLUnitCount == 2 * MAX_TEXTURES

NULL == "NULL"

Tags == {"a", "b"}
MaterialTags == {"metal", "wood"}

\* image files and what the codec makes of them
Files == {"rgb.png", "rgba.png", "grey.png", "missing.png"}

stbi_load(filename) ==
    CASE filename = "rgb.png"  -> [image |-> TRUE,  colorChannels |-> 3]
      [] filename = "rgba.png" -> [image |-> TRUE,  colorChannels |-> 4]
      [] filename = "grey.png" -> [image |-> TRUE,  colorChannels |-> 1]
      [] OTHER                 -> [image |-> FALSE, colorChannels |-> 0]

\* m_loadedTextures of a newly constructed SceneManager
InitLoadedTextures == 0

\* a default-constructed TEXTURE_INFO
EmptyTexture == [ID |-> 0, tag |-> ""]

\* m_textureIDs[index], also past the end of the array
TextureAt(index) ==
    IF index < MAX_TEXTURES THEN m_textureIDs[index]
    ELSE overrun[index - MAX_TEXTURES + 1]

-----------------------------------------------------------------------------
(* Lookups *)

RECURSIVE FindTextureIDFrom(_, _)
FindTextureIDFrom(tag, index) ==
    IF index < m_loadedTextures
    THEN IF TextureAt(index).tag = tag
         THEN TextureAt(index).ID
         ELSE FindTextureIDFrom(tag, index + 1)
    ELSE -1

FindTextureID(tag) == FindTextureIDFrom(tag, 0)

RECURSIVE FindTextureSlotFrom(_, _)
FindTextureSlotFrom(tag, index) ==
    IF index < m_loadedTextures
    THEN IF TextureAt(index).tag = tag
         THEN index
         ELSE FindTextureSlotFrom(tag, index + 1)
    ELSE -1

FindTextureSlot(tag) == FindTextureSlotFrom(tag, 0)

\* the local OBJECT_MATERIAL of SetShaderMaterial before FindMaterial fills it
NoColor == "indeterminate"
IndeterminateMaterials ==
    {[tag |-> "", diffuseColor |-> NoColor, specularColor |-> NoColor, shininess |-> s] :
        s \in {-1, 0}}

\* the scan of FindMaterial without the bFound stop: a later match overwrites
RECURSIVE FindMaterialNoStop(_, _, _)
FindMaterialNoStop(tag, material, index) ==
    IF index < Len(m_objectMaterials)
    THEN IF m_objectMaterials[index + 1].tag = tag
         THEN FindMaterialNoStop(tag,
                [material EXCEPT
                   !.diffuseColor  = m_objectMaterials[index + 1].diffuseColor,
                   !.specularColor = m_objectMaterials[index + 1].specularColor,
                   !.shininess     = m_objectMaterials[index + 1].shininess],
                index + 1)
         ELSE FindMaterialNoStop(tag, material, index + 1)
    ELSE material

RECURSIVE FindMaterialFrom(_, _, _)
FindMaterialFrom(tag, material, index) ==
    IF index < Len(m_objectMaterials)
    THEN IF m_objectMaterials[index + 1].tag = tag
         THEN [material EXCEPT
                 !.diffuseColor  = m_objectMaterials[index + 1].diffuseColor,
                 !.specularColor = m_objectMaterials[index + 1].specularColor,
                 !.shininess     = m_objectMaterials[index + 1].shininess]
         ELSE FindMaterialFrom(tag, material, index + 1)
    ELSE material

\* returns the bool of FindMaterial and the material reference after the call
FindMaterial(tag, material) ==
    IF Len(m_objectMaterials) = 0
    THEN [ret |-> FALSE, material |-> material]
    ELSE [ret |-> TRUE, material |-> FindMaterialFrom(tag, material, 0)]

-----------------------------------------------------------------------------
(* Texture registry *)

NoCall == [op |-> "none", filename |-> "", tag |-> "", ret |-> FALSE]

\* glBindTexture(GL_TEXTURE_2D, name) on the active unit
glBindTexture(units, unit, name) == [units EXCEPT ![unit] = name]

\* lines 113-115: the write of the new entry and the increment. Inside the array
\* the entry is stored; past its end the write is undefined behaviour, which
\* either lands in the memory behind the array or kills the process.
RegisterOutcomes == IF m_loadedTextures < MAX_TEXTURES THEN {"stored"} ELSE {"overrun", "crash"}

\* lines 105-117: the image was uploaded; unbind, register under the tag, return true
RegisterTexture(filename, tag, textureID) ==
    \E outcome \in RegisterOutcomes :
        /\ glNextName' = glNextName + 1
        \* bound for the upload in line 84, unbound again in line 110
        /\ glUnits' = glBindTexture(glBindTexture(glUnits, glActiveUnit, textureID),
                                    glActiveUnit, 0)
        /\ IF outcome = "crash"
           THEN /\ crashed' = TRUE
                /\ UNCHANGED <<m_textureIDs, m_loadedTextures, overrun>>
                /\ texCall' = [op |-> "CreateGLTexture", filename |-> filename,
                               tag |-> tag, ret |-> FALSE]
           ELSE /\ crashed' = FALSE
                /\ IF outcome = "stored"
                   THEN /\ m_textureIDs' = [m_textureIDs EXCEPT ![m_loadedTextures] =
                                               [ID |-> textureID, tag |-> tag]]
                        /\ overrun' = overrun
                   ELSE /\ overrun' = Append(overrun, [ID |-> textureID, tag |-> tag])
                        /\ m_textureIDs' = m_textureIDs
                /\ m_loadedTextures' = m_loadedTextures + 1
                /\ texCall' = [op |-> "CreateGLTexture", filename |-> filename,
                               tag |-> tag, ret |-> TRUE]

\* lines 99-103: unsupported channel count; return false with the texture still bound
RejectChannels(filename, tag, textureID) ==
    /\ glNextName' = glNextName + 1
    /\ glUnits' = glBindTexture(glUnits, glActiveUnit, textureID)
    /\ texCall' = [op |-> "CreateGLTexture", filename |-> filename,
                   tag |-> tag, ret |-> FALSE]
    /\ UNCHANGED <<m_textureIDs, m_loadedTextures, overrun, crashed>>

\* lines 120-123: the image could not be read; return false
CouldNotLoad(filename, tag) ==
    /\ texCall' = [op |-> "CreateGLTexture", filename |-> filename,
                   tag |-> tag, ret |-> FALSE]
    /\ UNCHANGED <<m_textureIDs, m_loadedTextures, overrun, crashed, glNextName, glUnits>>

\* CreateGLTexture without the return in the unsupported-channels branch
CreateGLTextureNoChannelCheck(filename, tag) ==
    /\ ~crashed
    /\ IF stbi_load(filename).image
       THEN RegisterTexture(filename, tag, glNextName)
       ELSE CouldNotLoad(filename, tag)
    /\ UNCHANGED <<m_pShaderManager, m_objectMaterials, glActiveUnit, sink, meshCall,
                   sceneCall, nullDeref, viewVars>>

CreateGLTexture(filename, tag) ==
    /\ ~crashed
    /\ IF stbi_load(filename).image
       THEN IF stbi_load(filename).colorChannels \in {3, 4}
            THEN RegisterTexture(filename, tag, glNextName)
            ELSE RejectChannels(filename, tag, glNextName)
       ELSE CouldNotLoad(filename, tag)
    /\ UNCHANGED <<m_pShaderManager, m_objectMaterials, glActiveUnit, sink, meshCall,
                   sceneCall, nullDeref, viewVars>>

\* BindGLTextures with the units off by one (GL_TEXTURE0 + i + 1)
BindGLTexturesShifted ==
    /\ ~crashed
    /\ glUnits' = [u \in DOMAIN glUnits |->
                     IF u >= 1 /\ u - 1 < m_loadedTextures THEN TextureAt(u - 1).ID
                     ELSE glUnits[u]]
    /\ glActiveUnit' = IF m_loadedTextures > 0 THEN m_loadedTextures ELSE glActiveUnit
    /\ texCall' = [op |-> "BindGLTextures", filename |-> "", tag |-> "", ret |-> FALSE]
    /\ UNCHANGED <<m_pShaderManager, m_textureIDs, m_loadedTextures, overrun,
                   m_objectMaterials, glNextName, sink, meshCall, sceneCall, nullDeref,
                   crashed, viewVars>>

BindGLTextures ==
    /\ ~crashed
    /\ glUnits' = [u \in DOMAIN glUnits |->
                     IF u < m_loadedTextures THEN TextureAt(u).ID ELSE glUnits[u]]
    /\ glActiveUnit' = IF m_loadedTextures > 0 THEN m_loadedTextures - 1 ELSE glActiveUnit
    /\ texCall' = [op |-> "BindGLTextures", filename |-> "", tag |-> "", ret |-> FALSE]
    /\ UNCHANGED <<m_pShaderManager, m_textureIDs, m_loadedTextures, overrun,
                   m_objectMaterials, glNextName, sink, meshCall, sceneCall, nullDeref,
                   crashed, viewVars>>

-----------------------------------------------------------------------------
(* Material registry *)

\* the reflectance values a material may be defined with
MaterialValues ==
    { [diffuseColor |-> "grey55", specularColor |-> "grey90", shininess |-> 64],
      [diffuseColor |-> "brown",  specularColor |-> "grey10", shininess |-> 1] }

\* one block of DefineObjectMaterials: fill an OBJECT_MATERIAL and push_back
DefineMaterial(tag, value) ==
    /\ ~crashed
    /\ m_objectMaterials' = Append(m_objectMaterials,
            [tag |-> tag, diffuseColor |-> value.diffuseColor,
             specularColor |-> value.specularColor, shininess |-> value.shininess])
    /\ UNCHANGED <<m_pShaderManager, m_textureIDs, m_loadedTextures, overrun, glNextName,
                   glActiveUnit, glUnits, sink, meshCall, texCall, sceneCall, nullDeref,
                   crashed, viewVars>>

-----------------------------------------------------------------------------
(* Shader uniform sink *)

Uniforms == {"model", "view", "projection", "viewPosition", "objectColor",
             "objectTexture", "bUseTexture", "bUseLighting", "UVscale",
             "material.diffuseColor", "material.specularColor", "material.shininess",
             "pointLights"}

\* a uniform holds <<>> until it is set and <<value>> afterwards
NoUniforms == [u \in Uniforms |-> <<>>]

\* ShaderManager::set*Value(name, value)
setValue(s, name, value) == [s EXCEPT ![name] = <<value>>]

-----------------------------------------------------------------------------
(* Camera *)

WINDOW_WIDTH == 1000
WINDOW_HEIGHT == 800

\* camera.h: degrees per pixel of cursor movement is 1 / MouseSensitivityInverse
MouseSensitivityInverse == 10
\* camera.h: the pitch is kept within +-PitchLimit degrees
PitchLimit == 89
\* camera.h: the zoom is kept within ZoomMin..ZoomMax
ZoomMin == 1
ZoomMax == 45

StartPosition == <<0, 5, 12>>

\* Front is either the vector the ViewManager constructor wrote, (0, -0.5, -2), or
\* the unit vector updateCameraVectors derives from Yaw and Pitch
CtorFront == [fixed |-> TRUE, yaw |-> 0, pitch |-> 0]
FrontFromAngles(yaw, pitch) == [fixed |-> FALSE, yaw |-> yaw, pitch |-> pitch]

\* the camera after ViewManager's constructor
NewCamera ==
    [Position |-> StartPosition, Front |-> CtorFront, Up |-> <<0, 1, 0>>,
     Yaw |-> -90, Pitch |-> 0, Zoom |-> 80, MovementSpeed |-> 20]

\* twice the direction of travel, with the angle-derived Front rounded to the
\* nearest world axis
TwiceDirection(cam, direction) ==
    CASE direction = "FORWARD"  -> IF cam.Front.fixed THEN <<0, -1, -4>> ELSE <<0, 0, -2>>
      [] direction = "BACKWARD" -> IF cam.Front.fixed THEN <<0, 1, 4>> ELSE <<0, 0, 2>>
      [] direction = "LEFT"     -> <<-2, 0, 0>>
      [] direction = "RIGHT"    -> <<2, 0, 0>>
      [] direction = "UP"       -> <<0, 2, 0>>
      [] OTHER                  -> <<0, -2, 0>>

\* Camera::ProcessKeyboard: Position += direction * MovementSpeed * deltaTime
ProcessKeyboard(cam, direction, deltaTime) ==
    LET velocity == cam.MovementSpeed * deltaTime
        twice == TwiceDirection(cam, direction)
    IN [cam EXCEPT !.Position =
            [i \in 1..3 |-> cam.Position[i] + (twice[i] * velocity) \div 2]]

\* Camera::ProcessMouseMovement: add the scaled offsets, clamp the pitch, update Front
ProcessMouseMovement(cam, xOffset, yOffset) ==
    LET yaw == cam.Yaw + xOffset \div MouseSensitivityInverse
        raw == cam.Pitch + yOffset \div MouseSensitivityInverse
        pitch == IF raw > PitchLimit THEN PitchLimit
                 ELSE IF raw < -PitchLimit THEN -PitchLimit ELSE raw
    IN [cam EXCEPT !.Yaw = yaw, !.Pitch = pitch, !.Front = FrontFromAngles(yaw, pitch)]

\* Camera::ProcessMouseScroll: Zoom -= yOffset, kept within ZoomMin..ZoomMax
ProcessMouseScroll(cam, yOffset) ==
    LET zoom == cam.Zoom - yOffset
    IN [cam EXCEPT !.Zoom = IF zoom < ZoomMin THEN ZoomMin
                            ELSE IF zoom > ZoomMax THEN ZoomMax ELSE zoom]

\* Camera::GetViewMatrix: lookAt(Position, Position + Front, Up)
GetViewMatrix(cam) == [eye |-> cam.Position, front |-> cam.Front, up |-> cam.Up]

-----------------------------------------------------------------------------
(* View / projection controller *)

NoViewCall == [op |-> "none", keys |-> {}, xOffset |-> 0, yOffset |-> 0]

\* last: the last cursor sample received, <<>> before the first one;
\* reset: "pending" from an O-press to the next sample, "consumed" when the last
\*        sample was the first one after an O-press, "none" otherwise;
\* before: the last sample on record at the most recent O-press
NoCursorLog == [last |-> <<>>, reset |-> "none", before |-> <<>>]

\* lines 161-167 without the orthographic early return
LookCameraAlways(cam, mode, xOffset, yOffset) ==
    ProcessMouseMovement(cam, xOffset, yOffset)

\* lines 161-167: no look input in orthographic mode
LookCamera(cam, mode, xOffset, yOffset) ==
    IF mode = "Orthographic" THEN cam
    ELSE ProcessMouseMovement(cam, xOffset, yOffset)

Mouse_Position_Callback(xMousePos, yMousePos) ==
    LET lastX == IF gFirstMouse THEN xMousePos ELSE gLastX
        lastY == IF gFirstMouse THEN yMousePos ELSE gLastY
        xOffset == xMousePos - lastX
        yOffset == lastY - yMousePos
    IN
    /\ gFirstMouse' = FALSE
    /\ gLastX' = xMousePos
    /\ gLastY' = yMousePos
    /\ g_pCamera' = LookCamera(g_pCamera, g_ProjectionMode, xOffset, yOffset)
    /\ viewCall' = [op |-> "Mouse_Position_Callback", keys |-> {},
                    xOffset |-> xOffset, yOffset |-> yOffset]
    /\ cursorLog' = [cursorLog EXCEPT
                        !.last = <<xMousePos, yMousePos>>,
                        !.reset = IF cursorLog.reset = "pending" THEN "consumed" ELSE "none"]
    /\ UNCHANGED <<gDeltaTime, gLastFrame, bCursorDisabled, bTabPressed,
                   g_ProjectionMode, windowShouldClose, sceneVars>>

Mouse_Scroll_Callback(yOffset) ==
    /\ g_pCamera' = ProcessMouseScroll(g_pCamera, yOffset)
    /\ viewCall' = [op |-> "Mouse_Scroll_Callback", keys |-> {},
                    xOffset |-> 0, yOffset |-> yOffset]
    /\ UNCHANGED <<gLastX, gLastY, gFirstMouse, gDeltaTime, gLastFrame, bCursorDisabled,
                   bTabPressed, g_ProjectionMode, windowShouldClose, cursorLog, sceneVars>>

\* lines 216-244: the movement keys, in the order the code tests them
CameraAfterMovement(cam, keys, deltaTime) ==
    LET w == IF "W" \in keys THEN ProcessKeyboard(cam, "FORWARD", deltaTime) ELSE cam
        s == IF "S" \in keys THEN ProcessKeyboard(w, "BACKWARD", deltaTime) ELSE w
        a == IF "A" \in keys THEN ProcessKeyboard(s, "LEFT", deltaTime) ELSE s
        d == IF "D" \in keys THEN ProcessKeyboard(a, "RIGHT", deltaTime) ELSE a
        q == IF "Q" \in keys THEN ProcessKeyboard(d, "UP", deltaTime) ELSE d
    IN IF "E" \in keys THEN ProcessKeyboard(q, "DOWN", deltaTime) ELSE q

\* the reset of lines 257-260 with the position left where it is
OrthographicResetKeepsPosition(cam) ==
    ProcessMouseMovement([cam EXCEPT !.Yaw = -90, !.Pitch = 0], 0, 0)

\* lines 257-260: back to the starting pose, facing the scene
OrthographicReset(cam) ==
    ProcessMouseMovement(
        [cam EXCEPT !.Yaw = -90, !.Pitch = 0, !.Position = StartPosition], 0, 0)

\* the camera after the keys, with the reset run before the movement keys
CameraAfterKeysResetFirst(cam, keys, deltaTime) ==
    IF "O" \in keys
    THEN CameraAfterMovement(OrthographicReset(cam), keys, deltaTime)
    ELSE CameraAfterMovement(cam, keys, deltaTime)

\* the camera after the keys, with the reset also run for the P key
CameraAfterKeysResetOnP(cam, keys, deltaTime) ==
    IF "O" \in keys \/ "P" \in keys
    THEN OrthographicReset(CameraAfterMovement(cam, keys, deltaTime))
    ELSE CameraAfterMovement(cam, keys, deltaTime)

\* lines 216-260: the camera after the keyboard processing of one frame
CameraAfterKeys(cam, keys, deltaTime) ==
    IF "O" \in keys
    THEN OrthographicReset(CameraAfterMovement(cam, keys, deltaTime))
    ELSE CameraAfterMovement(cam, keys, deltaTime)

\* the mode with O tested first and P second
ProjectionModeAfterKeysPLast(mode, keys) ==
    IF "P" \in keys THEN "Perspective"
    ELSE IF "O" \in keys THEN "Orthographic" ELSE mode

\* lines 247-253: P is tested first, O second
ProjectionModeAfterKeys(mode, keys) ==
    IF "O" \in keys THEN "Orthographic"
    ELSE IF "P" \in keys THEN "Perspective" ELSE mode

\* the first-mouse flag left alone by the O key
FirstMouseAfterKeysNoReset(first, keys) == first

\* line 263: the O key flags the next cursor sample as the first one
FirstMouseAfterKeys(first, keys) == IF "O" \in keys THEN TRUE ELSE first

ProcessKeyboardEvents(keys, deltaTime) ==
    /\ windowShouldClose' = (windowShouldClose \/ "ESCAPE" \in keys)
    /\ LET pressed == bTabPressed \/ "TAB" \in keys
           released == pressed /\ "TAB" \notin keys
       IN /\ bTabPressed' = IF released THEN FALSE ELSE pressed
          /\ bCursorDisabled' = IF released THEN ~bCursorDisabled ELSE bCursorDisabled
    /\ g_pCamera' = CameraAfterKeys(g_pCamera, keys, deltaTime)
    /\ g_ProjectionMode' = ProjectionModeAfterKeys(g_ProjectionMode, keys)
    /\ gFirstMouse' = FirstMouseAfterKeys(gFirstMouse, keys)
    /\ cursorLog' = IF "O" \in keys
                    THEN [cursorLog EXCEPT !.reset = "pending", !.before = cursorLog.last]
                    ELSE cursorLog

\* glm::radians: degrees * pi / 180, kept as the multiple <<numerator, denominator>> of pi
radians(degrees) == <<degrees, 180>>

\* glm::ortho(left, right, bottom, top, zNear, zFar); a quotient is kept as the
\* pair <<numerator, denominator>>
GlmOrtho(left, right, bottom, top, zNear, zFar) ==
    [kind |-> "ortho", left |-> left, right |-> right, bottom |-> bottom, top |-> top,
     fovy |-> <<0, 1>>, aspect |-> <<0, 1>>, near |-> zNear, far |-> zFar]

\* glm::perspective(fovy, aspect, zNear, zFar)
GlmPerspective(fovy, aspect, zNear, zFar) ==
    [kind |-> "perspective", left |-> <<0, 1>>, right |-> <<0, 1>>, bottom |-> 0,
     top |-> 0, fovy |-> fovy, aspect |-> aspect, near |-> zNear, far |-> zFar]

\* the projection with an orthographic frustum that follows the zoom
ProjectionZoomedOrtho(mode, cam) ==
    IF mode = "Orthographic"
    THEN GlmOrtho(<<-cam.Zoom * WINDOW_WIDTH, WINDOW_HEIGHT>>,
                  <<cam.Zoom * WINDOW_WIDTH, WINDOW_HEIGHT>>, -cam.Zoom, cam.Zoom,
                  <<1, 10>>, <<100, 1>>)
    ELSE GlmPerspective(radians(cam.Zoom), <<WINDOW_WIDTH, WINDOW_HEIGHT>>,
                        <<1, 10>>, <<100, 1>>)

\* lines 292-307: the projection of the active mode
Projection(mode, cam) ==
    IF mode = "Orthographic"
    THEN GlmOrtho(<<-10 * WINDOW_WIDTH, WINDOW_HEIGHT>>, <<10 * WINDOW_WIDTH, WINDOW_HEIGHT>>,
                  -10, 10, <<1, 10>>, <<100, 1>>)
    ELSE GlmPerspective(radians(cam.Zoom), <<WINDOW_WIDTH, WINDOW_HEIGHT>>,
                        <<1, 10>>, <<100, 1>>)

PrepareSceneView(currentFrame, keys) ==
    /\ gDeltaTime' = currentFrame - gLastFrame
    /\ gLastFrame' = currentFrame
    /\ ProcessKeyboardEvents(keys, currentFrame - gLastFrame)
    /\ sink' = IF m_pShaderManager # NULL
               THEN setValue(setValue(setValue(sink,
                        "view", GetViewMatrix(g_pCamera')),
                        "projection", Projection(g_ProjectionMode', g_pCamera')),
                        "viewPosition", g_pCamera'.Position)
               ELSE sink
    /\ viewCall' = [op |-> "PrepareSceneView", keys |-> keys, xOffset |-> 0, yOffset |-> 0]
    /\ UNCHANGED <<gLastX, gLastY, m_pShaderManager, m_textureIDs, m_loadedTextures,
                   overrun, m_objectMaterials, glNextName, glActiveUnit, glUnits,
                   meshCall, texCall, sceneCall, nullDeref, crashed>>

-----------------------------------------------------------------------------
(* Shader pushes and draws of the scene composer *)

\* a float of the scene composer is a fixed-point number: 1.0 is One
One == 1000

VecAdd(a, b) == [i \in 1..3 |-> a[i] + b[i]]

\* the quarter turns, modulo a full turn, in an angle that is a multiple of pi / 2
QuarterTurns(angle) == ((2 * angle[1]) \div angle[2]) % 4

\* cos and sin of an angle that is a multiple of pi / 2
Cos(angle) == <<One, 0, -One, 0>>[QuarterTurns(angle) + 1]
Sin(angle) == <<0, One, 0, -One>>[QuarterTurns(angle) + 1]

\* the product of two 4x4 matrices, row by column
MatProduct(a, b) ==
    [i \in 1..4 |-> [j \in 1..4 |->
        (a[i][1] * b[1][j] + a[i][2] * b[2][j] + a[i][3] * b[3][j] + a[i][4] * b[4][j])
            \div One]]

\* operator *(mat4, mat4): both operands are values before they are multiplied
MatMul(A, B) == CHOOSE m \in {MatProduct(a, b) : a \in {A}, b \in {B}} : TRUE

\* glm::scale(v)
GlmScale(v) ==
    << <<v[1], 0, 0, 0>>, <<0, v[2], 0, 0>>, <<0, 0, v[3], 0>>, <<0, 0, 0, One>> >>

\* glm::translate(v)
GlmTranslate(v) ==
    << <<One, 0, 0, v[1]>>, <<0, One, 0, v[2]>>, <<0, 0, One, v[3]>>, <<0, 0, 0, One>> >>

\* glm::rotate(angle, axis) for the three coordinate axes
GlmRotate(angle, axis) ==
    LET c == Cos(angle)
        sn == Sin(angle)
    IN CASE axis = <<1, 0, 0>> ->
              << <<One, 0, 0, 0>>, <<0, c, -sn, 0>>, <<0, sn, c, 0>>, <<0, 0, 0, One>> >>
         [] axis = <<0, 1, 0>> ->
              << <<c, 0, sn, 0>>, <<0, One, 0, 0>>, <<-sn, 0, c, 0>>, <<0, 0, 0, One>> >>
         [] OTHER ->
              << <<c, -sn, 0, 0>>, <<sn, c, 0, 0>>, <<0, 0, One, 0>>, <<0, 0, 0, One>> >>

\* the composition with the rotations in the order X, Y, Z
ModelMatrixXYZ(scaleXYZ, XrotationDegrees, YrotationDegrees, ZrotationDegrees, positionXYZ, offset) ==
    LET scale == GlmScale(scaleXYZ)
        rotationX == GlmRotate(radians(XrotationDegrees), <<1, 0, 0>>)
        rotationY == GlmRotate(radians(YrotationDegrees), <<0, 1, 0>>)
        rotationZ == GlmRotate(radians(ZrotationDegrees), <<0, 0, 1>>)
        translation == GlmTranslate(VecAdd(positionXYZ, offset))
    IN MatMul(MatMul(MatMul(MatMul(translation, rotationX), rotationY), rotationZ), scale)

\* lines 264-272: model = translation * rotationZ * rotationY * rotationX * scale
ModelMatrix(scaleXYZ, XrotationDegrees, YrotationDegrees, ZrotationDegrees, positionXYZ, offset) ==
    LET scale == GlmScale(scaleXYZ)
        rotationX == GlmRotate(radians(XrotationDegrees), <<1, 0, 0>>)
        rotationY == GlmRotate(radians(YrotationDegrees), <<0, 1, 0>>)
        rotationZ == GlmRotate(radians(ZrotationDegrees), <<0, 0, 1>>)
        translation == GlmTranslate(VecAdd(positionXYZ, offset))
    IN MatMul(MatMul(MatMul(MatMul(translation, rotationZ), rotationY), rotationX), scale)

SetTransformations(s, scaleXYZ, XrotationDegrees, YrotationDegrees, ZrotationDegrees, positionXYZ, offset) ==
    IF m_pShaderManager # NULL
    THEN setValue(s, "model",
            ModelMatrix(scaleXYZ, XrotationDegrees, YrotationDegrees, ZrotationDegrees,
                        positionXYZ, offset))
    ELSE s

\* a bool handed to setIntValue
BoolToInt(b) == IF b THEN 1 ELSE 0

\* SetShaderColor without the reset of bUseTexture
SetShaderColorKeepsTexture(s, color) ==
    IF m_pShaderManager # NULL THEN setValue(s, "objectColor", color) ELSE s

SetShaderColor(s, color) ==
    IF m_pShaderManager # NULL
    THEN setValue(setValue(s, "bUseTexture", BoolToInt(FALSE)), "objectColor", color)
    ELSE s

SetShaderTexture(s, textureTag) ==
    IF m_pShaderManager # NULL
    THEN setValue(setValue(s, "bUseTexture", BoolToInt(TRUE)),
                  "objectTexture", FindTextureSlot(textureTag))
    ELSE s

SetTextureUVScale(s, u, v) ==
    IF m_pShaderManager # NULL THEN setValue(s, "UVscale", <<u, v>>) ELSE s

\* lines 346-362, with `local` the indeterminate OBJECT_MATERIAL of line 351. The
\* three set*Value calls go through m_pShaderManager without a NULL test: deref
\* says whether they were made, the sink changes only when there is one.
SetShaderMaterial(s, materialTag, local) ==
    IF Len(m_objectMaterials) > 0
    THEN LET found == FindMaterial(materialTag, local) IN
         IF found.ret = TRUE
         THEN [deref |-> TRUE,
               sink |-> IF m_pShaderManager # NULL
                        THEN setValue(setValue(setValue(s,
                               "material.diffuseColor", found.material.diffuseColor),
                               "material.specularColor", found.material.specularColor),
                               "material.shininess", found.material.shininess)
                        ELSE s]
         ELSE [deref |-> FALSE, sink |-> s]
    ELSE [deref |-> FALSE, sink |-> s]

\* the default of the top, bottom and sides parameters of draw, DrawMesh and
\* DrawTexturedMesh
DefaultFlag == TRUE

NoMeshCall == [mesh |-> "none", args |-> <<>>]

NoSceneCall ==
    [op |-> "none", type |-> "", scale |-> <<0, 0, 0>>, rot |-> <<0, 0, 0>>,
     pos |-> <<0, 0, 0>>, offset |-> <<0, 0, 0>>, textureTag |-> "", uv |-> <<0, 0>>,
     col |-> "", materialTag |-> "", flags |-> <<FALSE, FALSE, FALSE>>]

\* lines 750-771: the mesh library call of each mesh type
draw(type, top, bottom, sides) ==
    CASE type = "PLANE"            -> [mesh |-> "DrawPlaneMesh", args |-> <<>>]
      [] type = "BOX"              -> [mesh |-> "DrawBoxMesh", args |-> <<>>]
      [] type = "BOX_FRONT"        -> [mesh |-> "DrawBoxMeshSide", args |-> <<"front">>]
      [] type = "BOX_BACK"         -> [mesh |-> "DrawBoxMeshSide", args |-> <<"back">>]
      [] type = "BOX_BOTTOM"       -> [mesh |-> "DrawBoxMeshSide", args |-> <<"bottom">>]
      [] type = "BOX_TOP"          -> [mesh |-> "DrawBoxMeshSide", args |-> <<"top">>]
      [] type = "BOX_RIGHT"        -> [mesh |-> "DrawBoxMeshSide", args |-> <<"right">>]
      [] type = "BOX_LEFT"         -> [mesh |-> "DrawBoxMeshSide", args |-> <<"left">>]
      [] type = "CONE"             -> [mesh |-> "DrawConeMesh", args |-> <<bottom>>]
      [] type = "CYLINDER"         -> [mesh |-> "DrawCylinderMesh",
                                       args |-> <<top, bottom, sides>>]
      [] type = "PRISM"            -> [mesh |-> "DrawPrismMesh", args |-> <<>>]
      [] type = "PYRAMID3"         -> [mesh |-> "DrawPyramid3Mesh", args |-> <<>>]
      [] type = "PYRAMID4"         -> [mesh |-> "DrawPyramid4Mesh", args |-> <<>>]
      [] type = "SPHERE"           -> [mesh |-> "DrawSphereMesh", args |-> <<>>]
      [] type = "TAPERED_CYLINDER" -> [mesh |-> "DrawTaperedCylinderMesh",
                                       args |-> <<top, bottom, sides>>]
      [] type = "TORUS"            -> [mesh |-> "DrawTorusMesh", args |-> <<>>]
      [] OTHER                     -> NoMeshCall

\* a call through the NULL shader manager is undefined behaviour: the process
\* dies or goes on
DerefOutcomes(deref) ==
    IF deref /\ m_pShaderManager = NULL THEN {"crash", "survive"} ELSE {"fine"}

DrawTexturedMesh(type, scale, pos, rot, textureTag, uTile, vTile, materialTag, top, bottom, sides) ==
    /\ ~crashed
    /\ sink' = SetTransformations(
                  SetTextureUVScale(SetShaderTexture(sink, textureTag), uTile, vTile),
                  scale, rot[1], rot[2], rot[3], pos, <<0, 0, 0>>)
    /\ meshCall' = draw(type, top, bottom, sides)
    /\ sceneCall' = [NoSceneCall EXCEPT !.op = "DrawTexturedMesh", !.type = type,
                        !.scale = scale, !.rot = rot, !.pos = pos,
                        !.textureTag = textureTag, !.uv = <<uTile, vTile>>,
                        !.materialTag = materialTag, !.flags = <<top, bottom, sides>>]
    /\ UNCHANGED <<m_pShaderManager, m_textureIDs, m_loadedTextures, overrun,
                   m_objectMaterials, glNextName, glActiveUnit, glUnits, texCall,
                   nullDeref, crashed, viewVars>>

DrawMesh(type, scale, pos, rot, col, materialTag, top, bottom, sides) ==
    /\ ~crashed
    /\ \E local \in IndeterminateMaterials :
         \E transformed \in {SetTransformations(sink, scale, rot[1], rot[2], rot[3], pos,
                                                <<0, 0, 0>>)} :
         \E pushed \in {SetShaderMaterial(SetShaderColor(transformed, col), materialTag,
                                          local)} :
         \E outcome \in DerefOutcomes(pushed.deref) :
              /\ nullDeref' = (nullDeref \/ outcome # "fine")
              /\ crashed' = (outcome = "crash")
              /\ sink' = pushed.sink
              /\ meshCall' = IF outcome = "crash" THEN meshCall
                             ELSE draw(type, DefaultFlag, DefaultFlag, DefaultFlag)
    /\ sceneCall' = [NoSceneCall EXCEPT !.op = "DrawMesh", !.type = type, !.scale = scale,
                        !.rot = rot, !.pos = pos, !.col = col, !.materialTag = materialTag,
                        !.flags = <<top, bottom, sides>>]
    /\ UNCHANGED <<m_pShaderManager, m_textureIDs, m_loadedTextures, overrun,
                   m_objectMaterials, glNextName, glActiveUnit, glUnits, texCall,
                   viewVars>>

\* a call of SetTransformations on its own
TransformPush(scaleXYZ, rot, positionXYZ, offset) ==
    /\ ~crashed
    /\ sink' = SetTransformations(sink, scaleXYZ, rot[1], rot[2], rot[3], positionXYZ, offset)
    /\ sceneCall' = [NoSceneCall EXCEPT !.op = "SetTransformations", !.scale = scaleXYZ,
                        !.rot = rot, !.pos = positionXYZ, !.offset = offset]
    /\ UNCHANGED <<m_pShaderManager, m_textureIDs, m_loadedTextures, overrun,
                   m_objectMaterials, glNextName, glActiveUnit, glUnits, meshCall,
                   texCall, nullDeref, crashed, viewVars>>

SetupSceneLights ==
    /\ ~crashed
    /\ sink' = IF m_pShaderManager = NULL THEN sink
               ELSE setValue(setValue(sink, "bUseLighting", TRUE),
                             "pointLights", <<TRUE, TRUE>>)
    /\ UNCHANGED <<m_pShaderManager, m_textureIDs, m_loadedTextures, overrun,
                   m_objectMaterials, glNextName, glActiveUnit, glUnits, meshCall,
                   texCall, sceneCall, nullDeref, crashed, viewVars>>

-----------------------------------------------------------------------------
(* Specifications *)

\* at: the call the program makes next; step: the calls of that kind already made
\* (in this frame, for the draws); frame: the frame being rendered, the first one
\* taking in the scene setup; bound: the frame BindGLTextures last ran in
StartOfProgram == [at |-> "DefineObjectMaterials", step |-> 0, frame |-> 1, bound |-> 0]

Init ==
    /\ m_pShaderManager \in {"valid", NULL}
    /\ m_textureIDs = [i \in 0..(MAX_TEXTURES - 1) |-> EmptyTexture]
    /\ m_loadedTextures = InitLoadedTextures
    /\ overrun = <<>>
    /\ m_objectMaterials = <<>>
    /\ glNextName = 1
    /\ glActiveUnit = 0
    /\ glUnits = [u \in 0..(GLUnitCount - 1) |-> 0]
    /\ sink = NoUniforms
    /\ meshCall = NoMeshCall
    /\ texCall = NoCall
    /\ sceneCall = NoSceneCall
    /\ nullDeref = FALSE
    /\ crashed = FALSE
    /\ g_pCamera = NewCamera
    /\ gLastX = WINDOW_WIDTH \div 2
    /\ gLastY = WINDOW_HEIGHT \div 2
    /\ gFirstMouse = TRUE
    /\ gDeltaTime = 0
    /\ gLastFrame = 0
    /\ bCursorDisabled = TRUE
    /\ bTabPressed = FALSE
    /\ g_ProjectionMode = "Perspective"
    /\ windowShouldClose = FALSE
    /\ viewCall = NoViewCall
    /\ cursorLog = NoCursorLog
    /\ pc = StartOfProgram

\* texture loads and material definitions of a scene setup
RegistryLoad ==
    /\ pc' = pc
    /\ glNextName <= MaxTextureNames
    /\ \E filename \in Files, tag \in Tags : CreateGLTexture(filename, tag)

RegistryDefine ==
    /\ pc' = pc
    /\ Len(m_objectMaterials) < MaxMaterials
    /\ \E tag \in MaterialTags, value \in MaterialValues : DefineMaterial(tag, value)

RegistryBind == pc' = pc /\ BindGLTextures

RegistryNext == RegistryLoad \/ RegistryBind \/ RegistryDefine

SpecRegistry == Init /\ [][RegistryNext]_vars

\* loads up to and past the capacity of the texture array
CapacityLoad ==
    /\ pc' = pc
    /\ glNextName <= MAX_TEXTURES + CapExtra
    /\ \E filename \in {"rgb.png", "missing.png"} : CreateGLTexture(filename, "a")

CapacityNext == CapacityLoad \/ RegistryBind

SpecCapacity == Init /\ [][CapacityNext]_vars

\* the frame loop of the view controller: cursor, scroll and per-frame keyboard input
MousePositions == {<<500, 400>>, <<510, 390>>}
ViewKeys == {"W", "D", "P", "O"}
KeySets == {keys \in SUBSET ViewKeys : Cardinality(keys) <= MaxKeysDown}

ViewMouse ==
    /\ pc' = pc
    /\ \E pos \in MousePositions : Mouse_Position_Callback(pos[1], pos[2])

ViewScroll ==
    /\ pc' = pc
    /\ \E yOffset \in {-1, 1} :
          /\ g_pCamera.Zoom - yOffset >= ZoomMax - MaxZoomSteps
          /\ Mouse_Scroll_Callback(yOffset)

ViewFrame ==
    /\ pc' = pc
    /\ \E currentFrame \in gLastFrame..MaxTime : \E keys \in KeySets :
          PrepareSceneView(currentFrame, keys)

ViewNext == ViewMouse \/ ViewScroll \/ ViewFrame

SpecView == Init /\ [][ViewNext]_vars

\* the frame loop with the mode keys, the cursor toggle and a movement key
ModeKeys == {"P", "O", "TAB", "W"}
ModeKeySets == {keys \in SUBSET ModeKeys : Cardinality(keys) <= MaxKeysDown}

ModeFrame ==
    /\ pc' = pc
    /\ \E currentFrame \in gLastFrame..MaxTime : \E keys \in ModeKeySets :
          PrepareSceneView(currentFrame, keys)

ModeNext == ViewMouse \/ ViewScroll \/ ModeFrame

SpecMode == Init /\ [][ModeNext]_vars

\* transforms of every combination of scales, right-angle rotations and positions
TransformScales == {<<One, One, One>>, <<2 * One, One \div 2, 3 * One>>, <<0, 0, 0>>}
TransformRotations == {0, 90, 360, 450} \X {0, 90, 180, 450} \X {0, 90, 180, 360}
TransformPositions ==
    {[pos |-> <<0, 0, 0>>, offset |-> <<0, 0, 0>>],
     [pos |-> <<One, 5 * One, -2 * One>>, offset |-> <<0, One \div 4, 0>>]}

TransformNext ==
    /\ pc' = pc
    /\ \E scaleXYZ \in TransformScales, rot \in TransformRotations,
          at \in TransformPositions :
          TransformPush(scaleXYZ, rot, at.pos, at.offset)

SpecTransform == Init /\ [][TransformNext]_vars

\* scene setup, then draws through the shader sink, with and without a sink
SceneSetup == sceneCall.op = "none"

\* PrepareScene loads every tag once
SceneLoad ==
    /\ pc' = pc
    /\ SceneSetup
    /\ glNextName <= MaxSceneTextures
    /\ \E tag \in Tags : FindTextureSlot(tag) = -1 /\ CreateGLTexture("rgb.png", tag)

\* the reflectance values DefineObjectMaterials gives a tag
SceneMaterial(tag) ==
    IF tag = "metal"
    THEN [diffuseColor |-> "grey55", specularColor |-> "grey90", shininess |-> 64]
    ELSE [diffuseColor |-> "brown", specularColor |-> "grey10", shininess |-> 1]

SceneDefine ==
    /\ pc' = pc
    /\ SceneSetup
    /\ Len(m_objectMaterials) < MaxMaterials
    /\ \E tag \in MaterialTags :
          /\ \A i \in 1..Len(m_objectMaterials) : m_objectMaterials[i].tag # tag
          /\ DefineMaterial(tag, SceneMaterial(tag))

SceneLights == pc' = pc /\ SceneSetup /\ SetupSceneLights

MeshTypes == {"CONE", "CYLINDER"}
FaceFlags == {<<FALSE, TRUE, FALSE>>, <<TRUE, FALSE, TRUE>>}
Placements == {[scale |-> <<One, One, One>>, pos |-> <<0, 5 * One, 0>>, rot |-> <<90, 0, 0>>]}

UVTiles == {<<1, 1>>, <<12, 6>>}
TexturedFaceFlags == {<<FALSE, FALSE, TRUE>>}

SceneDrawTextured ==
    /\ pc' = pc
    /\ \E type \in MeshTypes, place \in Placements, textureTag \in Tags, uv \in UVTiles,
          materialTag \in MaterialTags, flags \in TexturedFaceFlags :
          DrawTexturedMesh(type, place.scale, place.pos, place.rot, textureTag, uv[1],
                           uv[2], materialTag, flags[1], flags[2], flags[3])

SceneDrawMesh ==
    /\ pc' = pc
    /\ \E type \in MeshTypes, place \in Placements, materialTag \in MaterialTags,
          flags \in FaceFlags :
          DrawMesh(type, place.scale, place.pos, place.rot, "grey", materialTag,
                   flags[1], flags[2], flags[3])

SceneNext ==
    \/ SceneDefine
    \/ SceneLoad
    \/ SceneLights
    \/ SceneDrawTextured
    \/ SceneDrawMesh

SpecScene == Init /\ [][SceneNext]_vars

\* the materials of DefineObjectMaterials without the last one, glass
SceneMaterialsNoGlass ==
    << [tag |-> "plastic", diffuseColor |-> <<800, 800, 800>>,
        specularColor |-> <<150, 150, 150>>, shininess |-> 8 * One],
       [tag |-> "tile", diffuseColor |-> <<850, 850, 850>>,
        specularColor |-> <<750, 750, 750>>, shininess |-> 32 * One],
       [tag |-> "metal", diffuseColor |-> <<550, 550, 550>>,
        specularColor |-> <<900, 900, 900>>, shininess |-> 64 * One],
       [tag |-> "wood", diffuseColor |-> <<600, 500, 200>>,
        specularColor |-> <<100, 200, 200>>, shininess |-> One] >>

\* lines 667-706: the materials DefineObjectMaterials pushes, in order
SceneMaterials ==
    << [tag |-> "plastic", diffuseColor |-> <<800, 800, 800>>,
        specularColor |-> <<150, 150, 150>>, shininess |-> 8 * One],
       [tag |-> "tile", diffuseColor |-> <<850, 850, 850>>,
        specularColor |-> <<750, 750, 750>>, shininess |-> 32 * One],
       [tag |-> "metal", diffuseColor |-> <<550, 550, 550>>,
        specularColor |-> <<900, 900, 900>>, shininess |-> 64 * One],
       [tag |-> "wood", diffuseColor |-> <<600, 500, 200>>,
        specularColor |-> <<100, 200, 200>>, shininess |-> One],
       [tag |-> "glass", diffuseColor |-> <<300, 300, 200>>,
        specularColor |-> <<900, 900, 800>>, shininess |-> 10 * One] >>

\* lines 387-398: the texture loads of PrepareScene, in order
SceneTextures ==
    << [file |-> "textures/saltshaker.png", tag |-> "shaker"],
       [file |-> "textures/cap_sides.png", tag |-> "cap_sides"],
       [file |-> "textures/cap_top.png", tag |-> "cap_top"],
       [file |-> "textures/cap_torus.png", tag |-> "cap_torus"],
       [file |-> "textures/butter_face.png", tag |-> "butter_front"],
       [file |-> "textures/butter_side1.png", tag |-> "butter_left"],
       [file |-> "textures/butter_side2.png", tag |-> "butter_right"],
       [file |-> "textures/butter_side3.png", tag |-> "butter_back"],
       [file |-> "textures/butter_top.png", tag |-> "butter_top"],
       [file |-> "textures/butter_bottom.png", tag |-> "butter_bottom"],
       [file |-> "textures/Tile.png", tag |-> "tile"],
       [file |-> "textures/wood_top.png", tag |-> "wood_tex"] >>

\* what the codec may find at the path of a scene texture: an RGB image or nothing
SceneImages == {"rgb.png", "missing.png"}

\* a DrawTexturedMesh call of RenderScene
Textured(type, scale, pos, rot, textureTag, uTile, vTile, materialTag, flags) ==
    [solid |-> FALSE, type |-> type, scale |-> scale, pos |-> pos, rot |-> rot,
     textureTag |-> textureTag, uv |-> <<uTile, vTile>>, col |-> <<>>,
     materialTag |-> materialTag, flags |-> flags]

\* a DrawMesh call of RenderScene
Solid(type, scale, pos, rot, col, materialTag, flags) ==
    [solid |-> TRUE, type |-> type, scale |-> scale, pos |-> pos, rot |-> rot,
     textureTag |-> "", uv |-> <<0, 0>>, col |-> col,
     materialTag |-> materialTag, flags |-> flags]

\* a call that leaves top, bottom and sides to their defaults
Defaults == <<DefaultFlag, DefaultFlag, DefaultFlag>>

\* the locals of RenderScene
lampBase == <<0, 18500, 0>>
coneBase == VecAdd(lampBase, <<0, -(6000 + 900), 0>>)
cordCol == <<550, 550, 550, 1000>>
shadeCol == <<650, 650, 650, 1000>>
bulbCol == <<1000, 950, 750, 1000>>
butterBase == <<0, 1500 + 1125, 0>>
butterBodSize == <<2000, 2250, 1500>>
butterBodRot == <<0, 0, 0>>
butterBaseColor == <<950, 850, 250, 1000>>
legSize == <<250, butterBase[2] - butterBodSize[2] \div 2, 250>>
legOffsetX == (butterBodSize[1] * 22) \div 100
legOffsetZ == (butterBodSize[3] * 18) \div 100
armSize == <<200, 1000, 200>>
armRot == <<180, 0, 0>>
armOffsetX == butterBodSize[1] \div 2 + armSize[1] \div 2 - 50
armOffsetZ == (butterBodSize[3] * 15) \div 100

\* lines 419-664: the draws of RenderScene, in order
RenderSceneDraws ==
    << Textured("BOX", <<60000, 1500, 15000>>, <<0, 0, 0>>, <<0, 0, 0>>,
                "wood_tex", 1, 1, "wood", <<FALSE, TRUE, FALSE>>),
       Textured("TAPERED_CYLINDER", <<2000, 4500, 2000>>, <<-10000, 750, 0>>, <<0, 0, 0>>,
                "shaker", 1, 1, "glass", <<FALSE, FALSE, TRUE>>),
       Textured("CYLINDER", <<1100, 600, 1100>>, <<-10000, 4750, 0>>, <<0, 0, 0>>,
                "cap_sides", 1, 1, "metal", <<FALSE, FALSE, TRUE>>),
       Textured("CYLINDER", <<1100, 600, 1100>>, <<-10000, 4750, 0>>, <<0, 0, 0>>,
                "cap_top", 1, 1, "metal", <<TRUE, FALSE, FALSE>>),
       Solid("TORUS", <<1050, 1050, 1050>>, <<-10000, 4700, 0>>, <<90, 0, 0>>,
             <<447, 447, 447, 1000>>, "metal", Defaults),
       Textured("TAPERED_CYLINDER", <<2000, 4500, 2000>>, <<10000, 750, 0>>, <<0, 0, 0>>,
                "shaker", 1, 1, "glass", <<FALSE, FALSE, TRUE>>),
       Textured("CYLINDER", <<1100, 600, 1100>>, <<10000, 4750, 0>>, <<0, 0, 0>>,
                "cap_sides", 1, 1, "metal", <<FALSE, FALSE, TRUE>>),
       Textured("CYLINDER", <<1100, 600, 1100>>, <<10000, 4750, 0>>, <<0, 0, 0>>,
                "cap_top", 1, 1, "metal", <<TRUE, FALSE, FALSE>>),
       Solid("TORUS", <<1050, 1050, 1050>>, <<10000, 4700, 0>>, <<90, 0, 0>>,
             <<447, 447, 447, 1000>>, "metal", Defaults),
       Solid("CYLINDER", <<100, 6000, 100>>, lampBase, <<180, 0, 0>>, cordCol, "metal",
             Defaults),
       Solid("CONE", <<1000, 1000, 1000>>, coneBase, <<0, 0, 0>>, shadeCol, "plastic",
             <<FALSE, TRUE, FALSE>>),
       Solid("SPHERE", <<500, 500, 500>>, coneBase, <<0, 0, 0>>, bulbCol, "plastic",
             Defaults),
       Textured("PLANE", <<30000, 1000, 18000>>, <<0, 17000, -7500>>, <<90, 0, 0>>,
                "tile", 12, 6, "tile", <<TRUE, TRUE, TRUE>>),
       Textured("BOX_FRONT", butterBodSize, butterBase, butterBodRot,
                "butter_front", 1, 1, "plastic", Defaults),
       Textured("BOX_LEFT", butterBodSize, butterBase, butterBodRot,
                "butter_left", 1, 1, "plastic", Defaults),
       Textured("BOX_RIGHT", butterBodSize, butterBase, butterBodRot,
                "butter_right", 1, 1, "plastic", Defaults),
       Textured("BOX_BACK", butterBodSize, butterBase, butterBodRot,
                "butter_back", 1, 1, "plastic", Defaults),
       Textured("BOX_BOTTOM", butterBodSize, butterBase, butterBodRot,
                "butter_bottom", 1, 1, "plastic", Defaults),
       Textured("BOX_TOP", butterBodSize, butterBase, butterBodRot,
                "butter_top", 1, 1, "plastic", Defaults),
       Solid("CYLINDER", legSize,
             <<butterBase[1] - legOffsetX, legSize[2] \div 2, butterBase[3] + legOffsetZ>>,
             <<0, 0, 0>>, butterBaseColor, "plastic", Defaults),
       Solid("CYLINDER", legSize,
             <<butterBase[1] + legOffsetX, legSize[2] \div 2, butterBase[3] + legOffsetZ>>,
             <<0, 0, 0>>, butterBaseColor, "plastic", Defaults),
       Solid("CYLINDER", armSize,
             <<butterBase[1] - armOffsetX, butterBase[2], butterBase[3] + armOffsetZ>>,
             armRot, butterBaseColor, "plastic", Defaults),
       Solid("CYLINDER", armSize,
             <<butterBase[1] + armOffsetX, butterBase[2], butterBase[3] + armOffsetZ>>,
             armRot, butterBaseColor, "plastic", Defaults) >>

\* the main program: PrepareScene once, then PrepareSceneView and RenderScene in
\* every frame

\* the step of PrepareScene after the current one
AfterSetupStep ==
    CASE pc.at = "DefineObjectMaterials" ->
           IF pc.step + 1 < Len(SceneMaterials)
           THEN [pc EXCEPT !.step = pc.step + 1]
           ELSE [pc EXCEPT !.at = "SetupSceneLights", !.step = 0]
      [] pc.at = "SetupSceneLights" -> [pc EXCEPT !.at = "CreateGLTexture", !.step = 0]
      [] pc.at = "CreateGLTexture" ->
           IF pc.step + 1 < Len(SceneTextures)
           THEN [pc EXCEPT !.step = pc.step + 1]
           ELSE [pc EXCEPT !.at = "BindGLTextures", !.step = 0]
      [] OTHER -> [pc EXCEPT !.at = "PrepareSceneView", !.step = 0, !.bound = pc.frame]

FrameDefine ==
    /\ pc.at = "DefineObjectMaterials"
    /\ DefineMaterial(SceneMaterials[pc.step + 1].tag, SceneMaterials[pc.step + 1])
    /\ pc' = AfterSetupStep

FrameLights ==
    /\ pc.at = "SetupSceneLights"
    /\ SetupSceneLights
    /\ pc' = AfterSetupStep

\* loads that failed so far: every load is one step, every success one texture
FailedLoads == pc.step - m_loadedTextures

FrameLoad ==
    /\ pc.at = "CreateGLTexture"
    /\ \E found \in SceneImages :
          /\ stbi_load(found).image \/ FailedLoads < MaxFailedLoads
          /\ CreateGLTexture(found, SceneTextures[pc.step + 1].tag)
    /\ pc' = AfterSetupStep

FrameBind ==
    /\ pc.at = "BindGLTextures"
    /\ BindGLTextures
    /\ pc' = AfterSetupStep

\* the frame starts: after the setup, and after the last draw of the frame before
FrameView ==
    /\ \/ pc.at = "PrepareSceneView"
       \/ pc.at = "RenderScene" /\ pc.step = Len(RenderSceneDraws) /\ pc.frame < MaxFrames
    /\ \E currentFrame \in gLastFrame..MaxTime : PrepareSceneView(currentFrame, {})
    /\ pc' = [pc EXCEPT !.at = "RenderScene", !.step = 0,
                        !.frame = IF pc.at = "RenderScene" THEN pc.frame + 1 ELSE pc.frame]

\* the next draw of RenderScene
NextDraw == RenderSceneDraws[pc.step + 1]

FrameDrawTextured ==
    /\ pc.at = "RenderScene"
    /\ pc.step < Len(RenderSceneDraws)
    /\ ~NextDraw.solid
    /\ DrawTexturedMesh(NextDraw.type, NextDraw.scale, NextDraw.pos, NextDraw.rot,
                        NextDraw.textureTag, NextDraw.uv[1], NextDraw.uv[2],
                        NextDraw.materialTag, NextDraw.flags[1], NextDraw.flags[2],
                        NextDraw.flags[3])
    /\ pc' = [pc EXCEPT !.step = pc.step + 1]

FrameDrawMesh ==
    /\ pc.at = "RenderScene"
    /\ pc.step < Len(RenderSceneDraws)
    /\ NextDraw.solid
    /\ DrawMesh(NextDraw.type, NextDraw.scale, NextDraw.pos, NextDraw.rot, NextDraw.col,
                NextDraw.materialTag, NextDraw.flags[1], NextDraw.flags[2],
                NextDraw.flags[3])
    /\ pc' = [pc EXCEPT !.step = pc.step + 1]

FrameNext ==
    \/ FrameDefine
    \/ FrameLights
    \/ FrameLoad
    \/ FrameBind
    \/ FrameView
    \/ FrameDrawTextured
    \/ FrameDrawMesh

SpecFrame == Init /\ [][FrameNext]_vars

-----------------------------------------------------------------------------
(* Claims about the registries *)

RegisteredTextures == 0..(m_loadedTextures - 1)
RegisteredMaterials == 1..Len(m_objectMaterials)

FirstTexture(tag, i) ==
    /\ TextureAt(i).tag = tag
    /\ \A j \in 0..(i - 1) : TextureAt(j).tag # tag

FirstMaterial(tag, i) ==
    /\ m_objectMaterials[i].tag = tag
    /\ \A j \in 1..(i - 1) : m_objectMaterials[j].tag # tag

\* C1: when a tag is registered more than once, FindMaterial, FindTextureSlot and
\* FindTextureID return the data of the first-registered entry with that tag.
C1_FirstRegisteredWins ==
    /\ \A tag \in Tags : \A i \in RegisteredTextures :
          FirstTexture(tag, i) =>
             /\ FindTextureSlot(tag) = i
             /\ FindTextureID(tag) = TextureAt(i).ID
    /\ \A tag \in MaterialTags : \A i \in RegisteredMaterials :
          FirstMaterial(tag, i) =>
             \A local \in IndeterminateMaterials :
                LET found == FindMaterial(tag, local).material IN
                /\ found.diffuseColor = m_objectMaterials[i].diffuseColor
                /\ found.specularColor = m_objectMaterials[i].specularColor
                /\ found.shininess = m_objectMaterials[i].shininess

\* "metal" defined with shininess 64 and again with shininess 1, and a texture tag
\* loaded twice: the lookups answer with the first entries
C1_Witness ==
    /\ Len(m_objectMaterials) = 2
    /\ m_objectMaterials[1].tag = "metal" /\ m_objectMaterials[1].shininess = 64
    /\ m_objectMaterials[2].tag = "metal" /\ m_objectMaterials[2].shininess = 1
    /\ \A local \in IndeterminateMaterials :
          FindMaterial("metal", local).material.shininess = 64
    /\ m_loadedTextures >= 2
    /\ TextureAt(0).tag = "a" /\ TextureAt(1).tag = "a"
    /\ FindTextureSlot("a") = 0
    /\ FindTextureID("a") = TextureAt(0).ID
    /\ TextureAt(1).ID # TextureAt(0).ID

\* C2: FindMaterial returns true if and only if some registered material has the
\* tag, for every content of the registry.
C2_ReturnsWhetherFound ==
    \A tag \in MaterialTags : \A local \in IndeterminateMaterials :
        FindMaterial(tag, local).ret <=>
            (\E i \in RegisteredMaterials : m_objectMaterials[i].tag = tag)

\* C3: the k-th successfully loaded texture has slot k-1: FindTextureSlot maps the
\* registered textures one-to-one onto 0..count-1 in registration order.
C3_SlotsInRegistrationOrder ==
    \A i \in RegisteredTextures : FindTextureSlot(TextureAt(i).tag) = i

DecodeFails(filename) ==
    \/ ~stbi_load(filename).image
    \/ stbi_load(filename).colorChannels \notin {3, 4}

\* C4: a load whose file cannot be decoded, or whose channel count is not 3 or 4,
\* returns false and leaves the count and every entry of the texture registry
\* unchanged; afterwards the tag is not found (-1) unless an entry with that tag
\* was registered before.
C4_FailedLoadLeavesRegistry ==
    [][\A filename \in Files : \A tag \in Tags :
          (/\ filename = texCall'.filename
           /\ tag = texCall'.tag
           /\ CreateGLTexture(filename, tag)
           /\ DecodeFails(filename)) =>
             /\ texCall'.ret = FALSE
             /\ m_loadedTextures' = m_loadedTextures
             /\ m_textureIDs' = m_textureIDs
             /\ overrun' = overrun
             /\ FindTextureSlot(tag)' = FindTextureSlot(tag)
             /\ FindTextureID(tag)' = FindTextureID(tag)
             /\ \/ \E i \in RegisteredTextures : TextureAt(i).tag = tag
                \/ FindTextureSlot(tag)' = -1 /\ FindTextureID(tag)' = -1]_vars

\* a load of a one-channel image has just failed with another texture registered,
\* and its tag is not found
C4_Witness ==
    /\ texCall.op = "CreateGLTexture"
    /\ texCall.filename = "grey.png"
    /\ texCall.ret = FALSE
    /\ m_loadedTextures = 1
    /\ TextureAt(0).tag # texCall.tag
    /\ FindTextureSlot(texCall.tag) = -1
    /\ FindTextureID(texCall.tag) = -1

\* C5: the number of registered textures, and every texture unit BindGLTextures
\* binds, stays within the 16 slots.
C5_WithinSlotLimit ==
    /\ m_loadedTextures <= MAX_TEXTURES
    /\ \A u \in DOMAIN glUnits : glUnits[u] # 0 => u < MAX_TEXTURES

\* C6: BindGLTextures binds the handle of the i-th registered texture to unit i for
\* every i in 0..count-1 and leaves the registry unchanged; a second call right
\* after the first leaves the unit-to-handle assignment as it is.
C6_BindAllIdempotent ==
    [][BindGLTextures =>
          /\ m_loadedTextures' = m_loadedTextures
          /\ m_textureIDs' = m_textureIDs
          /\ overrun' = overrun
          /\ \A i \in RegisteredTextures : glUnits'[i] = TextureAt(i).ID
          /\ texCall.op = "BindGLTextures" =>
                (glUnits' = glUnits /\ glActiveUnit' = glActiveUnit)]_vars

\* textures "a" and "b" loaded and bound: handle(a) on unit 0, handle(b) on unit 1
C6_Witness ==
    /\ texCall.op = "BindGLTextures"
    /\ m_loadedTextures = 2
    /\ TextureAt(0).tag = "a" /\ TextureAt(1).tag = "b"
    /\ FindTextureSlot("a") = 0 /\ FindTextureSlot("b") = 1
    /\ glUnits[0] = FindTextureID("a") /\ glUnits[1] = FindTextureID("b")
    /\ glUnits[0] # glUnits[1]

-----------------------------------------------------------------------------
(* Claims about the view controller *)

\* C7: when the O key is down during the keyboard processing of a frame, then after
\* it the mode is Orthographic, the yaw is -90, the pitch is 0, the position is
\* (0, 5, 12) and the first-mouse flag is set, whatever pose, mode and mouse state
\* the earlier inputs produced.
C7_OrthographicResetsPose ==
    (viewCall.op = "PrepareSceneView" /\ "O" \in viewCall.keys) =>
        /\ g_ProjectionMode = "Orthographic"
        /\ g_pCamera.Yaw = -90
        /\ g_pCamera.Pitch = 0
        /\ g_pCamera.Position = <<0, 5, 12>>
        /\ gFirstMouse = TRUE

\* O and a movement key were down in a frame in which time had passed, after the
\* cursor had moved: the pose is the reset pose all the same
C7_Witness ==
    /\ viewCall.op = "PrepareSceneView"
    /\ viewCall.keys = {"O", "W"}
    /\ gDeltaTime > 0
    /\ gLastX # WINDOW_WIDTH \div 2
    /\ g_ProjectionMode = "Orthographic"
    /\ g_pCamera.Position = StartPosition
    /\ g_pCamera.Front = FrontFromAngles(-90, 0)
    /\ gFirstMouse

MovementKeys == {"W", "S", "A", "D", "Q", "E"}

\* C8: a frame with P down and O up sets the mode to Perspective and changes
\* nothing else: yaw, pitch, zoom, the first-mouse flag and the last cursor
\* position stay, and so does the position unless a movement key is down too.
C8_PerspectiveSwitchOnlyMode ==
    [][LET keys == viewCall'.keys
       IN (PrepareSceneView(gLastFrame', keys) /\ "P" \in keys /\ "O" \notin keys) =>
             /\ g_ProjectionMode' = "Perspective"
             /\ g_pCamera'.Yaw = g_pCamera.Yaw
             /\ g_pCamera'.Pitch = g_pCamera.Pitch
             /\ g_pCamera'.Front = g_pCamera.Front
             /\ g_pCamera'.Zoom = g_pCamera.Zoom
             /\ gFirstMouse' = gFirstMouse
             /\ gLastX' = gLastX
             /\ gLastY' = gLastY
             /\ (keys \cap MovementKeys = {}) => g_pCamera'.Position = g_pCamera.Position]_vars

\* P alone was down in the last frame, with the camera away from its starting
\* pose and a cursor position on record
C8_Witness ==
    /\ viewCall.op = "PrepareSceneView"
    /\ viewCall.keys = {"P"}
    /\ g_ProjectionMode = "Perspective"
    /\ g_pCamera.Position # StartPosition
    /\ g_pCamera.Yaw # -90
    /\ g_pCamera.Pitch # 0
    /\ g_pCamera.Zoom # NewCamera.Zoom
    /\ gFirstMouse = FALSE

\* C9: in Orthographic mode a cursor sample, whatever its coordinates, leaves the
\* camera (yaw, pitch and everything else ProcessMouseMovement writes) unchanged.
C9_NoLookInOrthographic ==
    [][(Mouse_Position_Callback(gLastX', gLastY') /\ g_ProjectionMode = "Orthographic") =>
             /\ g_pCamera'.Yaw = g_pCamera.Yaw
             /\ g_pCamera'.Pitch = g_pCamera.Pitch
             /\ g_pCamera' = g_pCamera]_vars

\* a cursor sample with non-zero offsets arrived in Orthographic mode
C9_Witness ==
    /\ viewCall.op = "Mouse_Position_Callback"
    /\ g_ProjectionMode = "Orthographic"
    /\ viewCall.xOffset # 0
    /\ viewCall.yOffset # 0
    /\ g_pCamera.Yaw = -90
    /\ g_pCamera.Pitch = 0

\* C12: the projection a frame pushes is that of the mode after the frame's keys:
\* in Perspective, field of view = the camera's zoom in degrees (as radians), aspect
\* 1000/800, near 0.1, far 100; in Orthographic, the fixed frustum of half-height 10
\* and half-width 10 * 1000 / 800, near 0.1, far 100, whatever the zoom and the pose.
C12_ProjectionByMode ==
    (viewCall.op = "PrepareSceneView" /\ m_pShaderManager # NULL) =>
        /\ sink["projection"] # <<>>
        /\ sink["projection"][1].near = <<1, 10>>
        /\ sink["projection"][1].far = <<100, 1>>
        /\ g_ProjectionMode = "Perspective" =>
              /\ sink["projection"][1].kind = "perspective"
              /\ sink["projection"][1].fovy = <<g_pCamera.Zoom, 180>>
              /\ sink["projection"][1].aspect = <<1000, 800>>
        /\ g_ProjectionMode = "Orthographic" =>
              /\ sink["projection"][1].kind = "ortho"
              /\ sink["projection"][1].bottom = -10
              /\ sink["projection"][1].top = 10
              /\ sink["projection"][1].left = <<-10 * 1000, 800>>
              /\ sink["projection"][1].right = <<10 * 1000, 800>>

\* a frame in Orthographic mode after the zoom was scrolled away from its start and
\* the camera was moved: the frustum is the fixed one
C12_Witness ==
    /\ viewCall.op = "PrepareSceneView"
    /\ m_pShaderManager # NULL
    /\ g_ProjectionMode = "Orthographic"
    /\ g_pCamera.Zoom = ZoomMax - 1
    /\ g_pCamera.Position # StartPosition
    /\ sink["projection"][1].kind = "ortho"
    /\ sink["projection"][1].top = 10

\* C17: the first cursor sample after an O-press gives a zero offset and leaves yaw
\* and pitch alone, in either mode; any other sample in Perspective turns the camera
\* by the difference to the sample right before it, which was taken after the most
\* recent O-press.
C17_NoLookJumpAfterReset ==
    [][Mouse_Position_Callback(gLastX', gLastY') =>
          /\ cursorLog.reset = "pending" =>
                /\ viewCall'.xOffset = 0
                /\ viewCall'.yOffset = 0
                /\ g_pCamera'.Yaw = g_pCamera.Yaw
                /\ g_pCamera'.Pitch = g_pCamera.Pitch
          /\ (cursorLog.reset # "pending" /\ cursorLog.last # <<>>
                 /\ g_ProjectionMode = "Perspective") =>
                /\ viewCall'.xOffset = gLastX' - cursorLog.last[1]
                /\ viewCall'.yOffset = cursorLog.last[2] - gLastY'
                /\ g_pCamera' = ProcessMouseMovement(g_pCamera, gLastX' - cursorLog.last[1],
                                                     cursorLog.last[2] - gLastY')]_vars

\* back in Perspective after an O-press, the first sample arrived at another cursor
\* position than the one on record at the O-press, and the camera did not turn
C17_Witness ==
    /\ viewCall.op = "Mouse_Position_Callback"
    /\ g_ProjectionMode = "Perspective"
    /\ cursorLog.reset = "consumed"
    /\ cursorLog.before # <<>>
    /\ cursorLog.before # cursorLog.last
    /\ viewCall.xOffset = 0
    /\ viewCall.yOffset = 0
    /\ g_pCamera.Yaw = -90
    /\ g_pCamera.Pitch = 0

\* C18: the mode is Perspective at the start; a frame's keyboard processing makes it
\* Orthographic when O is down (with or without P), Perspective when P is down and
\* O is not, and leaves it when neither is down; nothing else changes it: no cursor
\* sample, no scroll, no movement key, no TAB.
C18_ModeStateMachine ==
    /\ g_ProjectionMode = "Perspective"
    /\ [][IF PrepareSceneView(gLastFrame', viewCall'.keys)
          THEN /\ "O" \in viewCall'.keys => g_ProjectionMode' = "Orthographic"
               /\ ("P" \in viewCall'.keys /\ "O" \notin viewCall'.keys) =>
                     g_ProjectionMode' = "Perspective"
               /\ viewCall'.keys \cap {"P", "O"} = {} =>
                     g_ProjectionMode' = g_ProjectionMode
          ELSE g_ProjectionMode' = g_ProjectionMode]_vars

\* P and O were down together in the last frame, after TAB had released the cursor:
\* the mode is Orthographic
C18_Witness ==
    /\ viewCall.op = "PrepareSceneView"
    /\ viewCall.keys = {"P", "O"}
    /\ g_ProjectionMode = "Orthographic"
    /\ bCursorDisabled = FALSE
    /\ cursorLog.last # <<>>

\* C19: in a frame with O down, the view matrix and viewPosition pushed in that
\* frame are those of the reset pose, position (0, 5, 12), yaw -90, pitch 0, also
\* when movement keys are down in the same frame.
C19_ViewOfResetPose ==
    (viewCall.op = "PrepareSceneView" /\ "O" \in viewCall.keys /\ m_pShaderManager # NULL) =>
        /\ sink["view"] = <<[eye |-> <<0, 5, 12>>, front |-> FrontFromAngles(-90, 0),
                             up |-> <<0, 1, 0>>]>>
        /\ sink["viewPosition"] = <<(<<0, 5, 12>>)>>

\* O and D were down in a frame in which time had passed: the view pushed is the
\* one of the reset pose
C19_Witness ==
    /\ viewCall.op = "PrepareSceneView"
    /\ viewCall.keys = {"O", "D"}
    /\ gDeltaTime > 0
    /\ m_pShaderManager # NULL
    /\ sink["view"] # <<>>
    /\ sink["view"][1].eye = StartPosition
    /\ sink["viewPosition"] = <<StartPosition>>

-----------------------------------------------------------------------------
(* Claims about the transform composer *)

\* a quarter turn of a point about the X, Y or Z axis
QuarterTurn(p, axis) ==
    CASE axis = "X" -> <<p[1], -p[3], p[2]>>
      [] axis = "Y" -> <<p[3], p[2], -p[1]>>
      [] OTHER      -> <<-p[2], p[1], p[3]>>

RECURSIVE Turned(_, _, _)
Turned(p, axis, quarterTurns) ==
    IF quarterTurns = 0 THEN p ELSE Turned(QuarterTurn(p, axis), axis, quarterTurns - 1)

\* a point rotated about an axis by a multiple of 90 degrees
Rotated(p, axis, degrees) == Turned(p, axis, (degrees % 360) \div 90)

\* a point scaled, rotated about X, then Y, then Z, and moved by position + offset
Placed(p, call) ==
    LET scaled == [i \in 1..3 |-> (p[i] * call.scale[i]) \div One]
        turned == Rotated(Rotated(Rotated(scaled, "X", call.rot[1]), "Y", call.rot[2]),
                          "Z", call.rot[3])
    IN [i \in 1..3 |-> turned[i] + call.pos[i] + call.offset[i]]

\* the image of a point under a 4x4 matrix
MatApply(m, p) ==
    [i \in 1..3 |-> (m[i][1] * p[1] + m[i][2] * p[2] + m[i][3] * p[3] + m[i][4] * One)
                        \div One]

\* the origin and the three unit points: an affine map is fixed by their images
BasisPoints == {<<0, 0, 0>>, <<One, 0, 0>>, <<0, One, 0>>, <<0, 0, One>>}

TransformCalls == {"SetTransformations", "DrawMesh", "DrawTexturedMesh"}

\* C11: the matrix pushed as `model` is translate(position + offset) * rotateZ *
\* rotateY * rotateX * scale: it maps every point to the point scaled first, then
\* rotated about X, about Y, about Z, then moved, for zero scale and for rotations
\* of 360 degrees and more as well.
C11_ModelMatrixOrder ==
    (sceneCall.op \in TransformCalls /\ m_pShaderManager # NULL /\ ~crashed) =>
        /\ sink["model"] # <<>>
        /\ sink["model"][1][4] = <<0, 0, 0, One>>
        /\ \A p \in BasisPoints : MatApply(sink["model"][1], p) = Placed(p, sceneCall)

\* a transform with a quarter turn about X and one and a quarter turns about Y, where
\* the order of the rotations shows in the matrix
C11_Witness ==
    /\ sceneCall.op = "SetTransformations"
    /\ m_pShaderManager # NULL
    /\ sceneCall.rot = <<90, 450, 0>>
    /\ sceneCall.scale = <<2 * One, One \div 2, 3 * One>>
    /\ sceneCall.pos = <<One, 5 * One, -2 * One>>
    /\ sceneCall.offset = <<0, One \div 4, 0>>
    /\ sink["model"][1] # ModelMatrixXYZ(sceneCall.scale, 90, 450, 0, sceneCall.pos,
                                         sceneCall.offset)
    /\ MatApply(sink["model"][1], <<One, One, One>>) =
          <<One + One \div 2, 2 * One + One \div 4, -4 * One>>

-----------------------------------------------------------------------------
(* Claims about the draws of the scene composer *)

DrawCalls == {"DrawMesh", "DrawTexturedMesh"}

\* C13: a cylinder, cone or tapered cylinder drawn through DrawMesh reaches the mesh
\* library with the top, bottom and sides flags that were passed to DrawMesh.
C13_DrawMeshPassesFaceFlags ==
    (sceneCall.op = "DrawMesh" /\ ~crashed) =>
        /\ sceneCall.type = "CONE" =>
              meshCall = [mesh |-> "DrawConeMesh", args |-> <<sceneCall.flags[2]>>]
        /\ sceneCall.type = "CYLINDER" =>
              meshCall = [mesh |-> "DrawCylinderMesh", args |-> sceneCall.flags]
        /\ sceneCall.type = "TAPERED_CYLINDER" =>
              meshCall = [mesh |-> "DrawTaperedCylinderMesh", args |-> sceneCall.flags]

\* C14: when a mesh is drawn, by DrawTexturedMesh as well as by DrawMesh, the
\* material uniforms in the sink are those of the registered material the draw's
\* materialTag names.
C14_MaterialPushedPerDraw ==
    (sceneCall.op \in DrawCalls /\ m_pShaderManager # NULL /\ ~crashed) =>
        \A i \in RegisteredMaterials :
            FirstMaterial(sceneCall.materialTag, i) =>
                /\ sink["material.diffuseColor"] = <<m_objectMaterials[i].diffuseColor>>
                /\ sink["material.specularColor"] = <<m_objectMaterials[i].specularColor>>
                /\ sink["material.shininess"] = <<m_objectMaterials[i].shininess>>

\* C15: when a mesh is drawn with a valid sink, bUseTexture is true for a textured
\* draw and false for a solid draw, and for a textured draw objectTexture is the
\* slot of the texture tag (-1 when no texture has the tag) and UVscale is
\* (uTile, vTile).
C15_TextureStateAtDraw ==
    (sceneCall.op \in DrawCalls /\ m_pShaderManager # NULL /\ ~crashed) =>
        IF sceneCall.op = "DrawMesh"
        THEN sink["bUseTexture"] = <<0>>
        ELSE /\ sink["bUseTexture"] = <<1>>
             /\ sink["UVscale"] = <<sceneCall.uv>>
             /\ \A i \in RegisteredTextures :
                   FirstTexture(sceneCall.textureTag, i) => sink["objectTexture"] = <<i>>
             /\ (\A i \in RegisteredTextures : TextureAt(i).tag # sceneCall.textureTag)
                   => sink["objectTexture"] = <<-1>>

\* a textured draw of the second registered texture with tiling (12, 6), made after
\* a solid draw had switched texturing off
C15_Witness ==
    /\ sceneCall.op = "DrawTexturedMesh"
    /\ m_pShaderManager # NULL
    /\ sceneCall.textureTag = "b"
    /\ m_loadedTextures = 2
    /\ TextureAt(1).tag = "b"
    /\ sceneCall.uv = <<12, 6>>
    /\ sink["objectColor"] # <<>>
    /\ sink["bUseTexture"] = <<1>>
    /\ sink["objectTexture"] = <<1>>
    /\ sink["UVscale"] = <<(<<12, 6>>)>>

-----------------------------------------------------------------------------
(* Claims about the frames of the scene *)

\* a draw of RenderScene is the call made last
DrawJustMade == pc.at = "RenderScene" /\ pc.step >= 1 /\ sceneCall.op \in DrawCalls

\* C16: in every frame BindGLTextures runs before the first DrawTexturedMesh of the
\* frame's RenderScene: when a textured draw is made, the textures were bound in
\* that same frame.
C16_BindAllEveryFrame ==
    (DrawJustMade /\ sceneCall.op = "DrawTexturedMesh") => pc.bound = pc.frame

\* C20: when all twelve texture loads of PrepareScene succeeded, every texture tag
\* a DrawTexturedMesh call of RenderScene uses has a slot in 0..11, never -1, and
\* every material tag a DrawMesh or DrawTexturedMesh call uses names a material
\* DefineObjectMaterials defined.
C20_NoLookupMissInRenderScene ==
    (DrawJustMade /\ m_loadedTextures = 12) =>
        /\ sceneCall.op = "DrawTexturedMesh" =>
              /\ FindTextureSlot(sceneCall.textureTag) \in 0..11
              /\ FindTextureID(sceneCall.textureTag) # -1
              /\ \E i \in RegisteredTextures : TextureAt(i).tag = sceneCall.textureTag
              /\ m_pShaderManager # NULL =>
                    sink["objectTexture"] = <<FindTextureSlot(sceneCall.textureTag)>>
        /\ \E i \in RegisteredMaterials : m_objectMaterials[i].tag = sceneCall.materialTag

\* the last draw of a frame was made with every texture loaded; the last textured
\* draw left the slot of "butter_top" in the sink
C20_Witness ==
    /\ pc.at = "RenderScene"
    /\ pc.step = 23
    /\ pc.frame = 2
    /\ m_loadedTextures = 12
    /\ Len(m_objectMaterials) = 5
    /\ m_pShaderManager # NULL
    /\ sceneCall.op = "DrawMesh"
    /\ sceneCall.materialTag = "plastic"
    /\ FindTextureSlot("butter_top") = 8
    /\ sink["objectTexture"] = <<8>>
    /\ sink["material.shininess"] = <<8 * One>>

-----------------------------------------------------------------------------
(* Claims about the missing shader sink *)

\* C10: with a NULL shader manager every push of the scene and view code is a no-op
\* that never calls through the pointer, so no setup or draw sequence crashes.
C10_NullSinkIsNoOp ==
    m_pShaderManager = NULL => (~nullDeref /\ ~crashed /\ sink = NoUniforms)

====
